---- MODULE Spec2Model ----
(***************************************************************************)
(* Model of the transactional flows of the user controller:                *)
(*   checkInToEvent(eventId, userId)  and  deleteUserById(id)              *)
(* (src/src/app/controllers/user.controller.js).                           *)
(*                                                                         *)
(* Each call is the body of an `async` executor passed to `new Promise`.   *)
(* An `await` is a point where other calls may run, so every action below  *)
(* is one run-to-completion segment of the executor: from the completion   *)
(* of one awaited storage operation up to the next `await`.                *)
(* Storage operations may succeed or fail.  An exception that escapes the  *)
(* executor (no enclosing try) ends the executor and leaves the promise    *)
(* unsettled.  resolve/reject settle a promise once; later calls are       *)
(* ignored.                                                                *)
(***************************************************************************)
EXTENDS Integers, FiniteSets, Sequences, TLC

\* ---------------------------------------------------------------- bounds
MaxCalls == 2
MaxFailures == 1

Calls == 1..MaxCalls

\* identifiers a caller may pass; user 3 and event 2 match no row
UserIds == {1, 2, 3}
EventIds == {1, 2}
Pairs == EventIds \X UserIds

VARIABLES
    users,          \* committed rows of table users (ids)
    events,         \* committed rows of table events (ids)
    tokens,         \* committed rows of table tokens, [id, user_id]
    applications,   \* committed rows of table applications, [id, user_id]
    talks,          \* committed rows of table talks, [id, speaker_id]
    checkIns,       \* committed rows of table check-ins: <<event_id, user_id>> -> number of rows
    calls,          \* the calls of checkInToEvent / deleteUserById, by invocation order
    failures        \* storage failures injected so far

vars == <<users, events, tokens, applications, talks, checkIns, calls, failures>>

\* ------------------------------------------------------------ row content
\* user.email and event.name as used in the result messages
Email(u) == <<"email", u>>
Name(e) == <<"event", e>>

\* ------------------------------------------------------- promise outcomes
Pending == [state |-> "pending", success |-> FALSE, message |-> <<>>, error |-> "none"]

CheckedIn(u, e) ==
    [state |-> "resolved", success |-> TRUE,
     message |-> <<Email(u), " checked into ", Name(e), "!">>, error |-> "none"]

AlreadyCheckedIn(u, e) ==
    [state |-> "resolved", success |-> FALSE,
     message |-> <<Email(u), " has already checked into ", Name(e)>>, error |-> "none"]

Deleted ==
    [state |-> "resolved", success |-> TRUE, message |-> <<>>, error |-> "none"]

Rejected(err) ==
    [state |-> "rejected", success |-> FALSE, message |-> <<>>, error |-> err]

\* resolve(v) / reject(v): the first settlement wins (mutant: the last one wins)
SettleLast(result, v) == v

Settle(result, v) == IF result.state = "pending" THEN v ELSE result

\* ------------------------------------------------------------------ calls
NoCall ==
    [op |-> "none", eventId |-> 0, userId |-> 0, pc |-> "idle",
     t |-> "none",                 \* the transaction: none, open, committed, rolledback
     user |-> "unset",             \* lookups: unset, found, null, error
     event |-> "unset",
     existingCheckIn |-> "unset",
     checkIn |-> "none",           \* models.CheckIn.create: none, staged, error
     commit |-> "none",            \* t.commit(): none, ok, error
     destroy |-> "none",           \* user.destroy: none, inflight, staged, done, error
     err |-> "none",               \* the exception thrown in the executor
     result |-> Pending,           \* what the caller's promise has settled to
     repeat |-> FALSE]             \* invoked after a call for the same pair returned success:true

\* ---------------------------------------------------------------- storage
CanFail == failures < MaxFailures

\* rows of a table that reference user u are removed with it (ON DELETE CASCADE)
CascadeTokens(rows, u) == {r \in rows : r.user_id # u}
CascadeTalks(rows, u) == {r \in rows : r.speaker_id # u}
CascadeApplications(rows, u) == {r \in rows : r.user_id # u}
CascadeCheckIns(rows, u) == [p \in Pairs |-> IF p[2] = u THEN 0 ELSE rows[p]]

\* a row staged by an open transaction holds a lock on the user row it references
InsertLocksUser(u) ==
    \E c \in Calls : calls[c].op = "checkIn" /\ calls[c].userId = u
                     /\ calls[c].checkIn = "staged" /\ calls[c].t = "open"

DeleteLocksUser(u) ==
    \E c \in Calls : calls[c].op = "delete" /\ calls[c].userId = u
                     /\ calls[c].destroy = "staged" /\ calls[c].t = "open"

\* the force-delete of user u with its cascades, applied to the committed tables
DeleteUserRows(u) ==
    /\ users' = users \ {u}
    /\ tokens' = CascadeTokens(tokens, u)
    /\ applications' = CascadeApplications(applications, u)
    /\ talks' = CascadeTalks(talks, u)
    /\ checkIns' = CascadeCheckIns(checkIns, u)

Tables == <<users, events, tokens, applications, talks, checkIns>>

\* ------------------------------------------------------------------- Init
Init ==
    /\ users = {1, 2}
    /\ events = {1}
    /\ tokens = {[id |-> 1, user_id |-> 1], [id |-> 2, user_id |-> 2]}
    /\ applications = {[id |-> 1, user_id |-> 1], [id |-> 2, user_id |-> 2]}
    /\ talks = {[id |-> 1, speaker_id |-> 1], [id |-> 2, speaker_id |-> 2]}
    /\ checkIns = [p \in Pairs |-> IF p = <<1, 2>> THEN 1 ELSE 0]
    /\ calls = [c \in Calls |-> NoCall]
    /\ failures = 0

\* a call slot is taken in invocation order
Free(c) == calls[c].pc = "idle" /\ (IF c = 1 THEN TRUE ELSE calls[c - 1].pc # "idle")

\* ------------------------------------------------- checkInToEvent(e, u)
\* an earlier checkIn of the same pair ran to its end and returned success:true
CompletedSuccessfully(e, u) ==
    \E d \in Calls : /\ calls[d].op = "checkIn"
                     /\ calls[d].eventId = e /\ calls[d].userId = u
                     /\ calls[d].pc = "done" /\ calls[d].result = CheckedIn(u, e)

\* line 192-194: the call is made and the transaction is requested
CheckInCall(c, e, u) ==
    /\ Free(c)
    /\ calls' = [calls EXCEPT ![c] = [NoCall EXCEPT !.op = "checkIn", !.eventId = e,
                                                    !.userId = u, !.pc = "begin",
                                                    !.repeat = CompletedSuccessfully(e, u)]]
    /\ UNCHANGED <<Tables, failures>>

\* line 194 returns: the three lookups are issued (line 197-201)
CheckInBegin(c) ==
    /\ calls[c].op = "checkIn" /\ calls[c].pc = "begin"
    /\ calls' = [calls EXCEPT ![c].t = "open", ![c].pc = "lookups"]
    /\ UNCHANGED <<Tables, failures>>

\* line 194 throws outside the try: the executor ends, nothing settles the promise
CheckInBeginFails(c) ==
    /\ calls[c].op = "checkIn" /\ calls[c].pc = "begin"
    /\ CanFail
    /\ calls' = [calls EXCEPT ![c].err = "StorageError", ![c].pc = "done"]
    /\ failures' = failures + 1
    /\ UNCHANGED Tables

\* getUserById(userId) completes
LookupUser(c) ==
    /\ calls[c].op = "checkIn" /\ calls[c].pc = "lookups" /\ calls[c].user = "unset"
    /\ calls' = [calls EXCEPT ![c].user =
                     IF calls[c].userId \in users THEN "found" ELSE "null"]
    /\ UNCHANGED <<Tables, failures>>

\* eventController.getEventById(eventId) completes
LookupEvent(c) ==
    /\ calls[c].op = "checkIn" /\ calls[c].pc = "lookups" /\ calls[c].event = "unset"
    /\ calls' = [calls EXCEPT ![c].event =
                     IF calls[c].eventId \in events THEN "found" ELSE "null"]
    /\ UNCHANGED <<Tables, failures>>

\* getCheckIn(eventId, userId) completes: it reads the committed rows
LookupCheckIn(c) ==
    /\ calls[c].op = "checkIn" /\ calls[c].pc = "lookups"
    /\ calls[c].existingCheckIn = "unset"
    /\ calls' = [calls EXCEPT ![c].existingCheckIn =
                     IF checkIns[<<calls[c].eventId, calls[c].userId>>] > 0
                     THEN "found" ELSE "null"]
    /\ UNCHANGED <<Tables, failures>>

\* one of the three lookups fails
LookupFails(c) ==
    /\ calls[c].op = "checkIn" /\ calls[c].pc = "lookups"
    /\ CanFail
    /\ \/ calls[c].user = "unset" /\ calls' = [calls EXCEPT ![c].user = "error"]
       \/ calls[c].event = "unset" /\ calls' = [calls EXCEPT ![c].event = "error"]
       \/ calls[c].existingCheckIn = "unset"
          /\ calls' = [calls EXCEPT ![c].existingCheckIn = "error"]
    /\ failures' = failures + 1
    /\ UNCHANGED Tables

\* Promise.all (line 197) rejects as soon as one lookup has failed, and resolves
\* once all three have returned
Joined(c) ==
    \/ "error" \in {calls[c].user, calls[c].event, calls[c].existingCheckIn}
    \/ "unset" \notin {calls[c].user, calls[c].event, calls[c].existingCheckIn}

\* mutant: the user check of line 203 is missing
BranchNoUserCheck(user, event, existingCheckIn) ==
    IF "error" \in {user, event, existingCheckIn} THEN "StorageError"
    ELSE IF event = "null" THEN "NotFoundEvent"
    ELSE IF existingCheckIn = "null" THEN "create"
    ELSE "already"

\* line 197-211: where the executor goes once the lookups are joined
Branch(user, event, existingCheckIn) ==
    IF "error" \in {user, event, existingCheckIn} THEN "StorageError"
    ELSE IF user = "null" THEN "NotFoundUser"
    ELSE IF event = "null" THEN "NotFoundEvent"
    ELSE IF existingCheckIn = "null" THEN "create"
    ELSE "already"

\* line 197-211, 224-232: the lookups are joined and the executor runs to its next await
CheckInJoin(c) ==
    /\ calls[c].op = "checkIn" /\ calls[c].pc = "lookups"
    /\ Joined(c)
    /\ LET b == Branch(calls[c].user, calls[c].event, calls[c].existingCheckIn)
       IN  calls' = [calls EXCEPT ![c] =
              CASE b = "create" -> [@ EXCEPT !.pc = "create"]
                [] b = "already" ->
                     \* line 224-227; the transaction is left as it is
                     [@ EXCEPT !.result = Settle(@, AlreadyCheckedIn(calls[c].userId,
                                                                     calls[c].eventId)),
                               !.pc = "done"]
                [] OTHER ->
                     \* line 204/208 or the rejection of Promise.all, caught at line 229:
                     \* reject(err), then t.rollback() is awaited
                     [@ EXCEPT !.err = b, !.result = Settle(@, Rejected(b)),
                               !.pc = "rollback"]]
    /\ UNCHANGED <<Tables, failures>>

\* the check-ins table accepts a row whose event and user rows exist (foreign
\* keys); it carries no uniqueness constraint on (event_id, user_id)
InsertAccepted(e, u) == e \in events /\ u \in users

\* line 212-221: the create returns, success is resolved, the commit is requested
CheckInCreate(c) ==
    /\ calls[c].op = "checkIn" /\ calls[c].pc = "create"
    /\ InsertAccepted(calls[c].eventId, calls[c].userId)
    /\ ~DeleteLocksUser(calls[c].userId)
    /\ calls' = [calls EXCEPT ![c].checkIn = "staged",
                              ![c].result = Settle(@, CheckedIn(calls[c].userId,
                                                                calls[c].eventId)),
                              ![c].pc = "commit"]
    /\ UNCHANGED <<Tables, failures>>

\* line 212 throws: caught at line 229, reject(err), t.rollback() is awaited
CheckInCreateFails(c) ==
    /\ calls[c].op = "checkIn" /\ calls[c].pc = "create"
    /\ \/ CanFail /\ failures' = failures + 1
       \/ ~InsertAccepted(calls[c].eventId, calls[c].userId) /\ failures' = failures
    /\ calls' = [calls EXCEPT ![c].checkIn = "error", ![c].err = "StorageError",
                              ![c].result = Settle(@, Rejected("StorageError")),
                              ![c].pc = "rollback"]
    /\ UNCHANGED Tables

\* line 221 returns: the staged row is committed; then line 224 runs
CheckInCommit(c) ==
    /\ calls[c].op = "checkIn" /\ calls[c].pc = "commit"
    /\ checkIns' = [checkIns EXCEPT ![<<calls[c].eventId, calls[c].userId>>] = @ + 1]
    /\ calls' = [calls EXCEPT ![c].t = "committed", ![c].commit = "ok",
                              ![c].result = Settle(@, AlreadyCheckedIn(calls[c].userId,
                                                                       calls[c].eventId)),
                              ![c].pc = "done"]
    /\ UNCHANGED <<users, events, tokens, applications, talks, failures>>

\* line 221 throws: caught at line 229, reject(err), t.rollback() is awaited
CheckInCommitFails(c) ==
    /\ calls[c].op = "checkIn" /\ calls[c].pc = "commit"
    /\ CanFail
    /\ calls' = [calls EXCEPT ![c].commit = "error", ![c].err = "StorageError",
                              ![c].result = Settle(@, Rejected("StorageError")),
                              ![c].pc = "rollback"]
    /\ failures' = failures + 1
    /\ UNCHANGED Tables

\* line 231 returns: whatever the transaction staged is discarded.  (A rollback
\* that throws would change neither the settled promise nor any table.)
CheckInRollback(c) ==
    /\ calls[c].op = "checkIn" /\ calls[c].pc = "rollback"
    /\ calls' = [calls EXCEPT ![c].t = "rolledback", ![c].pc = "done"]
    /\ UNCHANGED <<Tables, failures>>

\* --------------------------------------------------- deleteUserById(id)
\* line 155-157: the call is made and the user lookup is issued
DeleteCall(c, u) ==
    /\ Free(c)
    /\ calls' = [calls EXCEPT ![c] = [NoCall EXCEPT !.op = "delete", !.userId = u,
                                                    !.pc = "lookup"]]
    /\ UNCHANGED <<Tables, failures>>

\* mutant: the existence test of line 159 is missing
DeleteBranchAlways(user) == "begin"

\* line 159, 176: the transaction is requested only for a user that was found
DeleteBranch(user) == IF user = "found" THEN "begin" ELSE "NotFoundUser"

\* line 157 returns; line 159 / 176-178
DeleteLookup(c) ==
    /\ calls[c].op = "delete" /\ calls[c].pc = "lookup"
    /\ LET user == IF calls[c].userId \in users THEN "found" ELSE "null"
           b == DeleteBranch(user)
       IN  calls' = [calls EXCEPT ![c] =
              IF b = "begin"
              THEN [@ EXCEPT !.user = user, !.pc = "begin"]
              ELSE [@ EXCEPT !.user = user, !.err = b,
                             !.result = Settle(@, Rejected(b)), !.pc = "done"]]
    /\ UNCHANGED <<Tables, failures>>

\* line 157 throws outside any try: the executor ends, nothing settles the promise
DeleteLookupFails(c) ==
    /\ calls[c].op = "delete" /\ calls[c].pc = "lookup"
    /\ CanFail
    /\ calls' = [calls EXCEPT ![c].user = "error", ![c].err = "StorageError",
                              ![c].pc = "done"]
    /\ failures' = failures + 1
    /\ UNCHANGED Tables

\* line 160 returns; line 163-171: the destroy is issued and not awaited,
\* success is resolved, the commit is requested
DeleteBegin(c) ==
    /\ calls[c].op = "delete" /\ calls[c].pc = "begin"
    /\ calls' = [calls EXCEPT ![c].t = "open", ![c].destroy = "inflight",
                              ![c].result = Settle(@, Deleted), ![c].pc = "commit"]
    /\ UNCHANGED <<Tables, failures>>

\* line 160 throws outside the try: the executor ends, nothing settles the promise
DeleteBeginFails(c) ==
    /\ calls[c].op = "delete" /\ calls[c].pc = "begin"
    /\ CanFail
    /\ calls' = [calls EXCEPT ![c].err = "StorageError", ![c].pc = "done"]
    /\ failures' = failures + 1
    /\ UNCHANGED Tables

\* line 163-165, the unawaited user.destroy({ force: true }, { transaction: t }).
\* It completes at some later point, whatever the executor is doing.  Whether the
\* storage layer runs it in transaction t (the intent of the second argument) or
\* on its own (the destroy of the storage layer takes one options argument) is
\* left open: both outcomes are modelled.
DestroyInTransaction(c) ==
    /\ calls[c].op = "delete" /\ calls[c].destroy = "inflight"
    /\ calls[c].t = "open"
    /\ ~InsertLocksUser(calls[c].userId) /\ ~DeleteLocksUser(calls[c].userId)
    /\ calls' = [calls EXCEPT ![c].destroy = "staged"]
    /\ UNCHANGED <<Tables, failures>>

DestroyAutocommit(c) ==
    /\ calls[c].op = "delete" /\ calls[c].destroy = "inflight"
    /\ ~InsertLocksUser(calls[c].userId) /\ ~DeleteLocksUser(calls[c].userId)
    /\ DeleteUserRows(calls[c].userId)
    /\ calls' = [calls EXCEPT ![c].destroy = "done"]
    /\ UNCHANGED <<events, failures>>

\* the destroy fails; nothing awaits it, so the failure reaches nobody
DestroyFails(c) ==
    /\ calls[c].op = "delete" /\ calls[c].destroy = "inflight"
    /\ CanFail
    /\ calls' = [calls EXCEPT ![c].destroy = "error"]
    /\ failures' = failures + 1
    /\ UNCHANGED Tables

\* line 171 returns: what the transaction staged is applied
DeleteCommit(c) ==
    /\ calls[c].op = "delete" /\ calls[c].pc = "commit"
    /\ IF calls[c].destroy = "staged"
       THEN DeleteUserRows(calls[c].userId) /\ UNCHANGED events
       ELSE UNCHANGED Tables
    /\ calls' = [calls EXCEPT ![c].t = "committed", ![c].commit = "ok",
                              ![c].destroy = IF @ = "staged" THEN "done" ELSE @,
                              ![c].pc = "done"]
    /\ UNCHANGED failures

\* line 171 throws: caught at line 172, reject(err) (the promise is already
\* resolved), t.rollback() is awaited
DeleteCommitFails(c) ==
    /\ calls[c].op = "delete" /\ calls[c].pc = "commit"
    /\ CanFail
    /\ calls' = [calls EXCEPT ![c].commit = "error", ![c].err = "StorageError",
                              ![c].result = Settle(@, Rejected("StorageError")),
                              ![c].pc = "rollback"]
    /\ failures' = failures + 1
    /\ UNCHANGED Tables

\* line 174 returns: whatever the transaction staged is discarded
DeleteRollback(c) ==
    /\ calls[c].op = "delete" /\ calls[c].pc = "rollback"
    /\ calls' = [calls EXCEPT ![c].t = "rolledback",
                              ![c].destroy = IF @ = "staged" THEN "error" ELSE @,
                              ![c].pc = "done"]
    /\ UNCHANGED <<Tables, failures>>

\* ------------------------------------------------------------------- Next
Next ==
    \E c \in Calls :
        \/ \E e \in EventIds, u \in UserIds : CheckInCall(c, e, u)
        \/ CheckInBegin(c)
        \/ CheckInBeginFails(c)
        \/ LookupUser(c)
        \/ LookupEvent(c)
        \/ LookupCheckIn(c)
        \/ LookupFails(c)
        \/ CheckInJoin(c)
        \/ CheckInCreate(c)
        \/ CheckInCreateFails(c)
        \/ CheckInCommit(c)
        \/ CheckInCommitFails(c)
        \/ CheckInRollback(c)
        \/ \E u \in UserIds : DeleteCall(c, u)
        \/ DeleteLookup(c)
        \/ DeleteLookupFails(c)
        \/ DeleteBegin(c)
        \/ DeleteBeginFails(c)
        \/ DestroyInTransaction(c)
        \/ DestroyAutocommit(c)
        \/ DestroyFails(c)
        \/ DeleteCommit(c)
        \/ DeleteCommitFails(c)
        \/ DeleteRollback(c)

Spec == Init /\ [][Next]_vars

\* ================================================================ claims
IsCheckIn(c) == calls[c].op = "checkIn"
IsDelete(c) == calls[c].op = "delete"
Pair(c) == <<calls[c].eventId, calls[c].userId>>

\* the call whose record a step changes is the call that took the step
Stepped(c) == calls'[c] # calls[c]

\* a storage operation of the checkIn call failed (a lookup, the create or the commit)
StorageFailed(r) ==
    \/ "error" \in {r.user, r.event, r.existingCheckIn}
    \/ r.checkIn = "error"
    \/ r.commit = "error"

\* the lookups returned: user found, event found, no check-in for the pair
NewCase(r) == r.user = "found" /\ r.event = "found" /\ r.existingCheckIn = "null"

\* the lookups returned, and the user or the event is missing
MissingCase(r) ==
    /\ {r.user, r.event, r.existingCheckIn} \subseteq {"found", "null"}
    /\ (r.user = "null" \/ r.event = "null")

NoDependents(u) ==
    /\ \A r \in tokens : r.user_id # u
    /\ \A r \in applications : r.user_id # u
    /\ \A r \in talks : r.speaker_id # u
    /\ \A p \in Pairs : p[2] = u => checkIns[p] = 0

\* C1: in every reachable state at most one CheckIn row exists per (event, user)
\* pair, whatever the interleaving of the checkIn calls.
C1_AtMostOneCheckInPerPair == \A p \in Pairs : checkIns[p] <= 1

\* C2: a checkIn call that finds the user, the event and no check-in for the pair,
\* and none of whose storage operations fails, adds exactly one row for the pair
\* (at its commit, and changes no table at any other step), ends with its
\* transaction committed and has returned success:true with the message
\* "<email> checked into <name>!", never the success:false record.
C2_NewCheckInCreatesOneRow ==
    [][\A c \in Calls :
          (Stepped(c) /\ calls'[c].op = "checkIn" /\ NewCase(calls'[c])
             /\ ~StorageFailed(calls'[c]) /\ calls'[c].pc \in {"create", "commit", "done"})
          => IF calls'[c].pc = "done"
             THEN /\ calls'[c].t = "committed"
                  /\ calls'[c].result = CheckedIn(calls[c].userId, calls[c].eventId)
                  /\ checkIns' = [checkIns EXCEPT ![Pair(c)] = @ + 1]
                  /\ UNCHANGED <<users, events, tokens, applications, talks>>
             ELSE /\ UNCHANGED Tables
                  /\ calls'[c].result \in {Pending,
                                           CheckedIn(calls[c].userId, calls[c].eventId)}
      ]_vars

C2_Witness ==
    \E c \in Calls : /\ IsCheckIn(c) /\ calls[c].pc = "done" /\ NewCase(calls[c])
                     /\ calls[c].t = "committed"
                     /\ calls[c].result = CheckedIn(calls[c].userId, calls[c].eventId)
                     /\ checkIns[Pair(c)] = 1

\* C3: a checkIn invoked after an earlier checkIn of the same pair has completed
\* with success:true, for a user and an event that exist, returns success:false
\* "<email> has already checked into <name>" and leaves one row for the pair.
C3_RepeatedCallIsRefused ==
    \A c \in Calls :
        (IsCheckIn(c) /\ calls[c].repeat /\ calls[c].pc = "done"
           /\ calls[c].user = "found" /\ calls[c].event = "found"
           /\ ~StorageFailed(calls[c]))
        => /\ calls[c].result = AlreadyCheckedIn(calls[c].userId, calls[c].eventId)
           /\ checkIns[Pair(c)] = 1

\* C4: no finished checkIn call has left the transaction it opened open.
C4_NoOpenTransactionAfterCheckIn ==
    \A c \in Calls : (IsCheckIn(c) /\ calls[c].pc = "done") => calls[c].t # "open"

\* C5: a checkIn call whose lookups return and find no user, or no event, is
\* rejected with NotFoundError (for the user when both are missing), never
\* attempts the create, changes no table at any of its steps and has rolled its
\* transaction back when it ends; a check-in found for the pair changes nothing.
C5_MissingUserOrEvent ==
    [][\A c \in Calls :
          (Stepped(c) /\ calls'[c].op = "checkIn" /\ MissingCase(calls'[c]))
          => /\ UNCHANGED Tables
             /\ calls'[c].checkIn = "none"
             /\ calls'[c].pc \in {"rollback", "done"} =>
                    calls'[c].result = Rejected(IF calls'[c].user = "null"
                                                THEN "NotFoundUser" ELSE "NotFoundEvent")
             /\ calls'[c].pc = "done" => calls'[c].t = "rolledback"
      ]_vars

C5_Witness ==
    /\ \E c \in Calls : /\ IsCheckIn(c) /\ calls[c].pc = "done" /\ MissingCase(calls[c])
                        /\ calls[c].user = "null"
                        /\ calls[c].result = Rejected("NotFoundUser")
                        /\ calls[c].t = "rolledback"
    /\ \E c \in Calls : /\ IsCheckIn(c) /\ calls[c].pc = "done" /\ MissingCase(calls[c])
                        /\ calls[c].user = "found" /\ calls[c].event = "null"
                        /\ calls[c].result = Rejected("NotFoundEvent")
                        /\ calls[c].t = "rolledback"

\* C6: once deleteById has run to its end and returned success:true, the user row
\* is gone and no token, application, talk or CheckIn row references the user.
C6_DeletedUserIsGone ==
    \A c \in Calls :
        (IsDelete(c) /\ calls[c].pc = "done" /\ calls[c].result = Deleted)
        => /\ calls[c].userId \notin users
           /\ NoDependents(calls[c].userId)

\* C7: deleteById for an id that matches no user is rejected with NotFoundError,
\* opens no transaction, issues no destroy and changes no table.
C7_DeleteOfMissingUser ==
    [][\A c \in Calls :
          (Stepped(c) /\ calls'[c].op = "delete" /\ calls[c].pc = "lookup"
             /\ calls[c].userId \notin users /\ calls'[c].user # "error")
          => /\ UNCHANGED Tables
             /\ calls'[c].result = Rejected("NotFoundUser")
             /\ calls'[c].t = "none"
             /\ calls'[c].destroy = "none"
             /\ calls'[c].pc = "done"
      ]_vars

C7_Witness ==
    \E c \in Calls : /\ IsDelete(c) /\ calls[c].pc = "done" /\ calls[c].user = "null"
                     /\ calls[c].result = Rejected("NotFoundUser")
                     /\ calls[c].t = "none"

\* C8: deleteById has returned success only when the destroy has completed and the
\* transaction is committed; when the destroy or the commit failed, the finished
\* call has returned the failure, rolled back, and the user is still present.
C8_SuccessOnlyAfterCommit ==
    \A c \in Calls :
        IsDelete(c) =>
            /\ calls[c].result = Deleted =>
                   (calls[c].destroy = "done" /\ calls[c].t = "committed")
            /\ (calls[c].pc = "done" /\ (calls[c].destroy = "error"
                                         \/ calls[c].commit = "error")) =>
                   /\ calls[c].result.state = "rejected"
                   /\ calls[c].t = "rolledback"
                   /\ calls[c].userId \in users

\* C9: a finished checkIn call one of whose storage operations failed (a lookup,
\* the create or the commit) has returned that error, not a success record, has
\* rolled back, and has added no row.
C9_StorageErrorPropagates ==
    \A c \in Calls :
        (IsCheckIn(c) /\ calls[c].pc = "done" /\ StorageFailed(calls[c]))
        => /\ calls[c].result = Rejected("StorageError")
           /\ calls[c].t = "rolledback"

\* C10: every call settles: a call whose executor has run to its end (every storage
\* operation it issued has returned or failed) has settled its promise with a
\* result or an error.
C10_FinishedCallHasSettled ==
    \A c \in Calls : calls[c].pc = "done" => calls[c].result.state # "pending"

====
